---- MODULE Spec2Model ----
(***************************************************************************)
(* Voice-conversation front end (gitnlsn/nlsn-ai-agent).                   *)
(*                                                                         *)
(* The module models                                                       *)
(*   - the turn-taking engine of src/src/main.ts (handleAudioChunk,        *)
(*     processAndRespondToMessage, stopAudio),                             *)
(*   - RealtimeConversation (utterance buffer, commitAudioBuffer) and      *)
(*     AudioPlayer of src/src/voice-interface/openai-realtime-2.ts,        *)
(*   - detectSilence of src/src/voice-interface/detect-silence.ts,         *)
(*   - AudioRecorder and RecordingSession of                               *)
(*     src/src/voice-interface/capture-audio-from-mic.ts.                  *)
(*                                                                         *)
(* JavaScript runs every callback to completion: one action is one         *)
(* macrotask (a chunk delivery, a backend reply, a stream or process       *)
(* event) together with the promise continuations it resumes, up to the    *)
(* next await that waits on an external event.                             *)
(***************************************************************************)
EXTENDS Integers, Sequences, FiniteSets, TLC

VARIABLES
    isPlaying,                \* main.ts:12
    lastSilenceTime,          \* main.ts:13
    currentAudioPlayer,       \* main.ts:14
    accumulatedAudioBuffer,   \* RealtimeConversation: chunk ids, in order
    conversationHistory,      \* RealtimeConversation: the roles of the entries
    tasks,                    \* pending/finished calls of processAndRespondToMessage
    players,                  \* AudioPlayer instances, by id
    now,                      \* Date.now() as last read, in ms
    handled,                  \* log of the chunks handed to handleAudioChunk
    cancelCalls,              \* log: number of cancel() calls per player
    recorder,                 \* the AudioRecorder with its RecordingSessions
    clock,                    \* time of the timers of the recorder, in ms
    recorderCalls,            \* log of the init() and stop() calls on the recorder
    detector,                 \* a call of detectSilence: arguments and result
    sigint,                   \* progress of the SIGINT handler (main.ts:133-139)
    realtime                  \* an OpenAIRealtime client and the sockets it opened

\* the state outside the turn-taking engine and its players
auxVars == <<recorder, clock, recorderCalls, detector, sigint, realtime>>

vars == <<isPlaying, lastSilenceTime, currentAudioPlayer, accumulatedAudioBuffer,
          conversationHistory, tasks, players, now, handled, cancelCalls,
          recorder, clock, recorderCalls, detector, sigint, realtime>>

engineVars == <<isPlaying, lastSilenceTime, currentAudioPlayer, accumulatedAudioBuffer,
                conversationHistory, tasks, now, handled>>

---------------------------------------------------------------------------
(* Bounds of the model *)

MaxChunks == 5
MaxCommits == 2
MaxTicks == 2
ClockStep == 300
MaxPlayCalls == 2
MaxCancels == 2
MaxTime == 9000
TimeStep == 1000
MaxSessions == 5
MaxRecorderCalls == 4
MaxBytes == 4
GateStep == 100

(* Program constants *)

silenceTimeThreshold == 300
NoTime == 0 - 1
NoPlayer == 0
NoProcess == 0
NoFile == 0
NoTimer == 0 - 1
NoInterval == 0
Undefined == 0 - 1

\* silenceThreshold = 0.02 = ThresholdNum / ThresholdDen
ThresholdNum == 2
ThresholdDen == 100
FullScale == 32768

---------------------------------------------------------------------------
(* detectSilence: buffers are sequences of decoded 16-bit samples *)

RECURSIVE SumOfSquares(_)
SumOfSquares(buffer) ==
    IF buffer = <<>> THEN 0
    ELSE Head(buffer) * Head(buffer) + SumOfSquares(Tail(buffer))

\* isSilent = rms < threshold, with rms = sqrt(sumOfSquares / FullScale^2 / n)
\* and n = buffer.length / 2 samples, that is
\*   sumOfSquares * ThresholdDen^2 < ThresholdNum^2 * FullScale^2 * n.
\* Both sides are divided by 16 to stay inside 32-bit integers.
\* n = 0 gives rms = NaN, and NaN < threshold is false.
detectSilence(buffer) ==
    Len(buffer) > 0 /\
    SumOfSquares(buffer) * ((ThresholdDen * ThresholdDen) \div 16)
        < ThresholdNum * ThresholdNum * (FullScale \div 4) * (FullScale \div 4)
             * Len(buffer)

QuietBuffer == <<0, 100>>
LoudBuffer == <<1000, 0 - 1000>>
ChunkBuffers == {QuietBuffer, LoudBuffer}

---------------------------------------------------------------------------
(* AudioPlayer (openai-realtime-2.ts:171-321).                             *)
(* A player is a record.  calls are the invocations of play(), procs the   *)
(* afplay processes it spawned, files the temp files that exist on disk.   *)
(* A process is "running" (sound is produced), "spawnfail" (spawn failed,  *)
(* 'error' not yet emitted), "errored", "killed" (signal sent), "exited"   *)
(* (terminated by itself, 'close' not yet emitted) or "closed".            *)

NewAudioPlayer ==
    [ stream        |-> "paused",
      closed        |-> FALSE,
      playing       |-> FALSE,
      afplayProcess |-> NoProcess,
      tempFilePath  |-> NoFile,
      calls         |-> <<>>,
      procs         |-> <<>>,
      files         |-> {} ]

\* ChildProcess.kill(): a signal is sent when the process still has a handle
kill(proc) ==
    IF proc.state \in {"running", "killed"}
    THEN [proc EXCEPT !.state = "killed", !.killed = TRUE, !.signals = @ + 1]
    ELSE proc

cleanupTempFile(pl) ==
    IF pl.tempFilePath # NoFile /\ pl.tempFilePath \in pl.files
    THEN [pl EXCEPT !.files = @ \ {pl.tempFilePath}, !.tempFilePath = NoFile]
    ELSE pl

\* settle the promise of call c: only the first resolve/reject counts
settle(pl, c, how, err) ==
    IF pl.calls[c].settled = "pending"
    THEN [pl EXCEPT !.calls[c].settled = how, !.calls[c].err = err]
    ELSE pl

\* cancel() that neither tests .killed nor drops the process reference
Mut_cancel(pl) ==
    LET k == pl.afplayProcess
        p1 == IF k # NoProcess
              THEN [pl EXCEPT !.procs[k] = kill(@), !.playing = FALSE]
              ELSE pl
    IN  cleanupTempFile(p1)

cancel(pl) ==
    LET k == pl.afplayProcess
        p1 == IF k # NoProcess /\ ~pl.procs[k].killed
              THEN [pl EXCEPT !.procs[k] = kill(@),
                              !.afplayProcess = NoProcess,
                              !.playing = FALSE]
              ELSE pl
    IN  cleanupTempFile(p1)

\* play() up to the await of saveToTempFile()
play(pl) ==
    LET c == Len(pl.calls) + 1 IN
    IF pl.playing
    THEN [pl EXCEPT !.calls = Append(@, [phase |-> "failed", settled |-> "rejected",
                                         err |-> "AlreadyPlaying"])]
    ELSE IF pl.closed
    THEN [pl EXCEPT !.calls = Append(@, [phase |-> "failed", settled |-> "rejected",
                                         err |-> "StreamClosed"])]
    ELSE [pl EXCEPT !.calls = Append(@, [phase |-> "staging", settled |-> "pending",
                                         err |-> "none"]),
                    !.files = @ \cup {c},
                    !.stream = IF @ = "paused" THEN "flowing" ELSE @]

\* audioStream 'end' handler (constructor)
onStreamEnd(pl) ==
    LET k == pl.afplayProcess
        p1 == IF k # NoProcess /\ ~pl.procs[k].killed
              THEN [pl EXCEPT !.procs[k] = kill(@), !.playing = FALSE]
              ELSE pl
    IN  [p1 EXCEPT !.closed = TRUE, !.stream = "ended"]

\* fileStream 'finish' of call c, then the rest of play(): spawn
onFileFinish(pl, c, spawned) ==
    LET k == Len(pl.procs) + 1 IN
    [pl EXCEPT !.tempFilePath = c,
               !.procs = Append(@, [state   |-> IF spawned THEN "running" ELSE "spawnfail",
                                    killed  |-> FALSE,
                                    signals |-> 0,
                                    code    |-> 0,
                                    call    |-> c]),
               !.afplayProcess = k,
               !.playing = TRUE,
               !.calls[c].phase = "spawned"]

\* fileStream 'error' of call c: saveToTempFile rejects, catch block of play().
\* The write stream fails either on open (the file was never created) or on
\* a write (the file exists); tempFilePath is assigned on 'finish' only.
onFileError(pl, c, created) ==
    LET p0 == IF created THEN pl ELSE [pl EXCEPT !.files = @ \ {c}]
        p1 == [p0 EXCEPT !.playing = FALSE, !.calls[c].phase = "failed"]
    IN  settle(cleanupTempFile(p1), c, "rejected", "StageError")

\* afplay 'close' handler of process k
onProcClose(pl, k) ==
    LET p1 == [pl EXCEPT !.procs[k].state = "closed",
                         !.afplayProcess = NoProcess,
                         !.playing = FALSE]
    IN  settle(cleanupTempFile(p1), pl.procs[k].call, "resolved", "none")

\* afplay 'error' handler of process k
onProcError(pl, k) ==
    LET p1 == [pl EXCEPT !.procs[k].state = "errored",
                         !.afplayProcess = NoProcess,
                         !.playing = FALSE]
    IN  settle(cleanupTempFile(p1), pl.procs[k].call, "rejected", "SpawnError")

\* the process terminates by itself with an exit code
procExit(pl, k, code) ==
    [pl EXCEPT !.procs[k].state = "exited", !.procs[k].code = code]

ExitCodes == {0, 1}

---------------------------------------------------------------------------
(* AudioRecorder and RecordingSession (capture-audio-from-mic.ts)          *)
(*                                                                         *)
(* Times are in ms.  A timer is the time at which it is due, NoTimer once  *)
(* it fired (setTimeout) or was cleared.  intervals are the setInterval    *)
(* timers created so far and captureInterval the handle the recorder       *)
(* holds.  The audio of a session is measured by its duration: the buffer  *)
(* a session delivers holds the data recorded from its start to its stop.  *)

\* x || d of JavaScript, for a number x
OrDefault(x, d) == IF x = Undefined \/ x = 0 THEN d ELSE x

\* the delay Node gives a timer: values below 1 become 1
TimerDelay(ms) == IF ms < 1 THEN 1 ELSE ms

NoRecorder ==
    [ constructed        |-> FALSE,
      chunkLengthSeconds |-> 0,
      overlapSeconds     |-> 0,
      captureIntervalMs  |-> 0,
      isRecording        |-> FALSE,
      captureInterval    |-> NoInterval,
      intervals          |-> <<>>,
      activeSessions     |-> {},
      sessions           |-> <<>> ]

\* the constructor with captureIntervalMs taken as the chunk length
Mut_NewAudioRecorder(config) ==
    LET chunkLengthSeconds == OrDefault(config.chunkLengthSeconds, 5)
        overlapSeconds     == OrDefault(config.overlapSeconds, 1)
    IN  [NoRecorder EXCEPT !.constructed = TRUE,
                           !.chunkLengthSeconds = chunkLengthSeconds,
                           !.overlapSeconds = overlapSeconds,
                           !.captureIntervalMs = chunkLengthSeconds * 1000]

\* constructor of AudioRecorder
NewAudioRecorder(config) ==
    LET chunkLengthSeconds == OrDefault(config.chunkLengthSeconds, 5)
        overlapSeconds     == OrDefault(config.overlapSeconds, 1)
    IN  [NoRecorder EXCEPT !.constructed = TRUE,
                           !.chunkLengthSeconds = chunkLengthSeconds,
                           !.overlapSeconds = overlapSeconds,
                           !.captureIntervalMs =
                               (chunkLengthSeconds - overlapSeconds) * 1000]

\* the configurations given to the constructor, in seconds
RecorderConfigs ==
    [chunkLengthSeconds : {Undefined, 0, 2, 5}, overlapSeconds : {Undefined, 1, 2, 3}]

\* RecordingSession.start() at time t
NewRecordingSession(t, durationMs) ==
    [ isActive        |-> TRUE,
      start           |-> t,
      durationTimeout |-> t + TimerDelay(durationMs),
      recording       |-> TRUE,
      delivered       |-> <<>> ]

\* RecordingSession.stop() of session s at time t, with the onComplete
\* callback of startNewRecordingSession: the session leaves activeSessions
\* and its buffer goes to onCapture
sessionStop(rec, s, t) ==
    IF ~rec.sessions[s].isActive THEN rec
    ELSE [rec EXCEPT !.sessions[s].isActive = FALSE,
                     !.sessions[s].durationTimeout = NoTimer,
                     !.sessions[s].recording = FALSE,
                     !.sessions[s].delivered =
                         Append(@, [at |-> t, audio |-> t - rec.sessions[s].start]),
                     !.activeSessions = @ \ {s}]

startNewRecordingSession(rec, t) ==
    LET s == Len(rec.sessions) + 1 IN
    [rec EXCEPT !.sessions = Append(@, NewRecordingSession(t, rec.chunkLengthSeconds * 1000)),
                !.activeSessions = @ \cup {s}]

\* init() without the test of isRecording
Mut_init(rec, t) ==
    LET r1 == startNewRecordingSession([rec EXCEPT !.isRecording = TRUE], t)
    IN  [r1 EXCEPT !.intervals = Append(@, t + TimerDelay(rec.captureIntervalMs)),
                   !.captureInterval = Len(rec.intervals) + 1]

\* AudioRecorder.init() at time t
init(rec, t) ==
    IF rec.isRecording THEN rec
    ELSE LET r1 == startNewRecordingSession([rec EXCEPT !.isRecording = TRUE], t)
         IN  [r1 EXCEPT !.intervals = Append(@, t + TimerDelay(rec.captureIntervalMs)),
                        !.captureInterval = Len(rec.intervals) + 1]

\* the callback of setInterval, for timer i
onInterval(rec, i, t) ==
    LET r1 == IF rec.isRecording THEN startNewRecordingSession(rec, t) ELSE rec
    IN  [r1 EXCEPT !.intervals[i] = @ + TimerDelay(rec.captureIntervalMs)]

\* the loop of stop() over activeSessions, in insertion order
RECURSIVE stopSessions(_, _, _)
stopSessions(rec, S, t) ==
    IF S = {} THEN rec
    ELSE LET s == CHOOSE x \in S : \A y \in S : x <= y
         IN  stopSessions(sessionStop(rec, s, t), S \ {s}, t)

clearCaptureInterval(rec) ==
    IF rec.captureInterval # NoInterval
    THEN [rec EXCEPT !.intervals[rec.captureInterval] = NoTimer,
                     !.captureInterval = NoInterval]
    ELSE rec

\* stop() that leaves the active sessions alone
Mut_stop(rec, t) ==
    IF ~rec.isRecording THEN rec
    ELSE clearCaptureInterval([rec EXCEPT !.isRecording = FALSE])

\* AudioRecorder.stop() at time t
stop(rec, t) ==
    IF ~rec.isRecording THEN rec
    ELSE LET r1 == clearCaptureInterval([rec EXCEPT !.isRecording = FALSE])
             r2 == stopSessions(r1, r1.activeSessions, t)
         IN  [r2 EXCEPT !.activeSessions = {}]

\* the times at which a timer of the recorder is due
DueTimes(rec) ==
    ({rec.intervals[i] : i \in DOMAIN rec.intervals}
        \cup {rec.sessions[s].durationTimeout : s \in DOMAIN rec.sessions}) \ {NoTimer}

---------------------------------------------------------------------------
(* detectSilence on the bytes of the buffer (detect-silence.ts)            *)
(*                                                                         *)
(* A buffer is a sequence of bytes; offsets count from 0 as in the source. *)
(* A threshold is a fraction num/den, or NoThreshold when the caller gives *)
(* none.  rmsValue is given by                                             *)
(* its square: rmsValue^2 = sumOfSquares / (FullScale^2 * halfLength),     *)
(* where halfLength stands for buffer.length / 2; the result is NaN when   *)
(* both are 0.                                                             *)

\* Buffer.readInt16LE(offset): RangeError unless offset + 2 <= length
readInt16LE(buffer, offset) ==
    LET u == buffer[offset + 1] + 256 * buffer[offset + 2]
    IN  IF u >= 32768 THEN u - 65536 ELSE u

\* the loop of detect-silence.ts:38-47 from index i on, with the sum so far;
\* threw is set when readInt16LE is called on fewer than 2 remaining bytes
RECURSIVE sumLoop(_, _, _)
sumLoop(buffer, i, sumOfSquares) ==
    IF ~(i < Len(buffer)) THEN [threw |-> FALSE, sumOfSquares |-> sumOfSquares]
    ELSE IF i + 2 > Len(buffer) THEN [threw |-> TRUE, sumOfSquares |-> sumOfSquares]
    ELSE LET sample == readInt16LE(buffer, i)
         IN  sumLoop(buffer, i + 2, sumOfSquares + sample * sample)

DefaultThreshold == [num |-> ThresholdNum, den |-> ThresholdDen]

\* options.threshold is undefined
NoThreshold == [num |-> Undefined, den |-> 1]

\* the comparison of detect-silence.ts:53 with <= in place of <
Mut_RmsBelow(sumOfSquares, n, threshold) ==
    sumOfSquares * ((threshold.den * threshold.den) \div 16)
        <= threshold.num * threshold.num * (FullScale \div 4) * (FullScale \div 4) * n

\* rms < threshold, on the squares: sumOfSquares / (FullScale^2 * n) < (num/den)^2,
\* with both sides divided by 16
RmsBelow(sumOfSquares, n, threshold) ==
    sumOfSquares * ((threshold.den * threshold.den) \div 16)
        < threshold.num * threshold.num * (FullScale \div 4) * (FullScale \div 4) * n

\* detectSilence(buffer, options): the result, or threw when it raises
detectSilenceBytes(buffer, options) ==
    LET threshold == IF options = NoThreshold THEN DefaultThreshold ELSE options
        loop      == sumLoop(buffer, 0, 0)
    IN  IF loop.threw
        THEN [threw |-> TRUE, isSilent |-> FALSE, isNaN |-> FALSE,
              sumOfSquares |-> 0, halfLength |-> 0]
        ELSE IF Len(buffer) = 0
        THEN [threw |-> FALSE, isSilent |-> FALSE, isNaN |-> TRUE,
              sumOfSquares |-> 0, halfLength |-> 0]
        ELSE [threw |-> FALSE,
              isSilent |-> RmsBelow(loop.sumOfSquares, Len(buffer) \div 2, threshold),
              isNaN |-> FALSE,
              sumOfSquares |-> loop.sumOfSquares, halfLength |-> Len(buffer) \div 2]

\* the bytes the buffers are made of: 0x00, 0x02, 0xff
ByteValues == {0, 2, 255}

RECURSIVE BuffersOfLength(_)
BuffersOfLength(n) ==
    IF n = 0 THEN {<<>>}
    ELSE {Append(b, x) : b \in BuffersOfLength(n - 1), x \in ByteValues}

ByteBuffers == UNION {BuffersOfLength(n) : n \in 0..MaxBytes}

\* no threshold given, 0.01 and 1/64
ThresholdOptions == {NoThreshold, [num |-> 1, den |-> 100], [num |-> 1, den |-> 64]}

NoResult == [threw |-> FALSE, isSilent |-> FALSE, isNaN |-> FALSE,
             sumOfSquares |-> 0, halfLength |-> 0]

\* no call of detectSilence is modelled
NoDetection == [phase |-> "idle", buffer |-> <<>>, options |-> NoThreshold,
                result |-> NoResult]

\* no SIGINT was received
NoSigint == [phase |-> "running", tasksBefore |-> 0]

\* new OpenAIRealtime(): capture-audio-from-mic.ts:230-232 (ws = null,
\* isConnected = false); sockets are the WebSockets created so far and calls
\* the log of the calls of connect() and disconnect()
NoSocket == 0
NoRealtime == [ws |-> NoSocket, isConnected |-> FALSE, sockets |-> <<>>, calls |-> <<>>]

\* nothing happens outside the engine and its players
AuxIdle ==
    /\ recorder = NoRecorder
    /\ clock = 0
    /\ recorderCalls = <<>>
    /\ detector = NoDetection
    /\ sigint = NoSigint
    /\ realtime = NoRealtime

---------------------------------------------------------------------------
(* Turn-taking engine (main.ts) and RealtimeConversation                   *)

PlayerIds == DOMAIN players

\* a call of processAndRespondToMessage; audio is combinedBuffer of the commit
NewTask(audio, chunk) ==
    [pc |-> "listen", audio |-> audio, chunk |-> chunk, result |-> "pending",
     failedAt |-> "none"]

\* commitAudioBuffer has been called and has neither resolved nor rejected
CommitInFlight(t) == tasks[t].pc \in {"listen", "generate", "speak"}

\* the handler of the chunk that started task t has not yet returned
HandlerPending(t) == tasks[t].pc # "done"

\* main.ts:45-50
stopAudio ==
    IF currentAudioPlayer # NoPlayer
    THEN /\ players' = [players EXCEPT ![currentAudioPlayer] = cancel(@)]
         /\ cancelCalls' = [cancelCalls EXCEPT ![currentAudioPlayer] = @ + 1]
         /\ currentAudioPlayer' = NoPlayer
    ELSE UNCHANGED <<players, cancelCalls, currentAudioPlayer>>

\* processAndRespondToMessage without the push of the confirming chunk (main.ts:110)
Mut_processAndRespondToMessage(id) ==
    /\ isPlaying' = TRUE
    /\ tasks' = Append(tasks, NewTask(accumulatedAudioBuffer, id))
    /\ UNCHANGED <<lastSilenceTime, currentAudioPlayer, accumulatedAudioBuffer,
                   conversationHistory, players, cancelCalls>>

\* main.ts:101-111: up to the await of commitAudioBuffer().  The buffer holds
\* at least the chunk just pushed, so the 'No audio buffer' throw cannot happen.
processAndRespondToMessage(id) ==
    /\ isPlaying' = TRUE
    /\ accumulatedAudioBuffer' = Append(accumulatedAudioBuffer, id)
    /\ tasks' = Append(tasks, NewTask(Append(accumulatedAudioBuffer, id), id))
    /\ UNCHANGED <<lastSilenceTime, currentAudioPlayer, conversationHistory,
                   players, cancelCalls>>

\* whilePlaying without the return of main.ts:67: the interrupting chunk falls
\* through to the accumulation of main.ts:89-97
Mut_whilePlaying(id, isSilent) ==
    IF ~isSilent
    THEN /\ stopAudio
         /\ isPlaying' = FALSE
         /\ lastSilenceTime' = NoTime
         /\ accumulatedAudioBuffer' = Append(accumulatedAudioBuffer, id)
         /\ UNCHANGED <<conversationHistory, tasks>>
    ELSE UNCHANGED <<isPlaying, lastSilenceTime, currentAudioPlayer,
                     accumulatedAudioBuffer, conversationHistory, tasks,
                     players, cancelCalls>>

\* main.ts:58-68: a chunk handled while a reply is being produced or played
whilePlaying(id, isSilent) ==
    IF ~isSilent
    THEN /\ stopAudio
         /\ isPlaying' = FALSE
         /\ UNCHANGED <<lastSilenceTime, accumulatedAudioBuffer,
                        conversationHistory, tasks>>
    ELSE UNCHANGED <<isPlaying, lastSilenceTime, currentAudioPlayer,
                     accumulatedAudioBuffer, conversationHistory, tasks,
                     players, cancelCalls>>

\* onSilence that restarts the silence timer at every silent chunk that does
\* not commit
Mut_onSilence(id) ==
    IF lastSilenceTime = NoTime \/ lastSilenceTime = 0
    THEN /\ lastSilenceTime' = now'
         /\ UNCHANGED <<isPlaying, currentAudioPlayer, accumulatedAudioBuffer,
                        conversationHistory, tasks, players, cancelCalls>>
    ELSE IF now' - lastSilenceTime >= silenceTimeThreshold
    THEN processAndRespondToMessage(id)
    ELSE /\ lastSilenceTime' = now'
         /\ UNCHANGED <<isPlaying, currentAudioPlayer, accumulatedAudioBuffer,
                        conversationHistory, tasks, players, cancelCalls>>

\* main.ts:71-87: a silent chunk handled while listening
onSilence(id) ==
    IF lastSilenceTime = NoTime \/ lastSilenceTime = 0
    THEN /\ lastSilenceTime' = now'
         /\ UNCHANGED <<isPlaying, currentAudioPlayer, accumulatedAudioBuffer,
                        conversationHistory, tasks, players, cancelCalls>>
    ELSE IF now' - lastSilenceTime >= silenceTimeThreshold
    THEN processAndRespondToMessage(id)
    ELSE UNCHANGED <<isPlaying, lastSilenceTime, currentAudioPlayer,
                     accumulatedAudioBuffer, conversationHistory, tasks,
                     players, cancelCalls>>

\* main.ts:89-97: a non-silent chunk handled while listening
onSpeech(id) ==
    /\ lastSilenceTime' = NoTime
    /\ accumulatedAudioBuffer' = Append(accumulatedAudioBuffer, id)
    /\ UNCHANGED <<isPlaying, currentAudioPlayer, conversationHistory, tasks,
                   players, cancelCalls>>

\* handleAudioChunk that tests isPlaying for non-silent chunks only: a silent
\* chunk is handled as in Listening
Mut_handleAudioChunk(id, audioChunk) ==
    LET isSilent == detectSilence(audioChunk) IN
    IF isPlaying /\ ~isSilent THEN whilePlaying(id, isSilent)
    ELSE IF isSilent THEN onSilence(id)
    ELSE onSpeech(id)

\* main.ts:53-98: up to the first await
handleAudioChunk(id, audioChunk) ==
    LET isSilent == detectSilence(audioChunk) IN
    IF isPlaying THEN whilePlaying(id, isSilent)
    ELSE IF isSilent THEN onSilence(id)
    ELSE onSpeech(id)

\* the chunk takes the branch of main.ts:82-85
WouldCommit(audioChunk, time) ==
    /\ ~isPlaying
    /\ detectSilence(audioChunk)
    /\ lastSilenceTime # NoTime /\ lastSilenceTime # 0
    /\ time - lastSilenceTime >= silenceTimeThreshold

\* The clock is read only when a chunk is handled (main.ts:74, 78): a chunk
\* arrives elapsed ms after the previous one.
ElapsedTimes == {0, ClockStep}

\* main.ts:32-35: a capture session delivers a chunk; the call is not awaited
onCapture(audioChunk, elapsed) ==
    /\ Len(handled) < MaxChunks
    /\ now + elapsed <= ClockStep * MaxTicks
    /\ now' = now + elapsed
    /\ Len(tasks) < MaxCommits \/ ~WouldCommit(audioChunk, now')
    /\ handled' = Append(handled, [buffer |-> audioChunk, t |-> now',
                                   silent |-> detectSilence(audioChunk),
                                   playing |-> isPlaying])
    /\ handleAudioChunk(Len(handled) + 1, audioChunk)
    /\ UNCHANGED auxVars

\* the rest of handleAudioChunk after processAndRespondToMessage returned
\* (main.ts:84), which runs in the same turn as the end of the latter
FinishTask(t, result, failedAt) ==
    /\ lastSilenceTime' = NoTime
    /\ tasks' = [tasks EXCEPT ![t].pc = "done", ![t].result = result,
                              ![t].failedAt = failedAt]

\* openai-realtime-2.ts:98-107: voice.listen resolved
ListenDone(t) ==
    /\ tasks[t].pc = "listen"
    /\ conversationHistory' = Append(conversationHistory, "user")
    /\ tasks' = [tasks EXCEPT ![t].pc = "generate"]
    /\ UNCHANGED <<isPlaying, lastSilenceTime, currentAudioPlayer,
                   accumulatedAudioBuffer, players, now, handled, cancelCalls>>
    /\ UNCHANGED auxVars

\* openai-realtime-2.ts:107-119: agent.generate resolved
GenerateDone(t) ==
    /\ tasks[t].pc = "generate"
    /\ conversationHistory' = Append(conversationHistory, "assistant")
    /\ accumulatedAudioBuffer' = <<>>
    /\ tasks' = [tasks EXCEPT ![t].pc = "speak"]
    /\ UNCHANGED <<isPlaying, lastSilenceTime, currentAudioPlayer, players, now,
                   handled, cancelCalls>>
    /\ UNCHANGED auxVars

\* SpeakDone that drops the reply of a commit the user has interrupted
Mut_SpeakDone(t, hasAudio) ==
    /\ tasks[t].pc = "speak"
    /\ IF hasAudio /\ isPlaying
       THEN /\ currentAudioPlayer' = t
            /\ players' = (t :> play(NewAudioPlayer)) @@ players
            /\ cancelCalls' = (t :> 0) @@ cancelCalls
            /\ tasks' = [tasks EXCEPT ![t].pc = "play"]
            /\ UNCHANGED <<isPlaying, lastSilenceTime>>
       ELSE /\ isPlaying' = FALSE
            /\ FinishTask(t, IF hasAudio THEN "dropped" ELSE "noAudio", "none")
            /\ UNCHANGED <<currentAudioPlayer, players, cancelCalls>>
    /\ UNCHANGED <<accumulatedAudioBuffer, conversationHistory, now, handled>>
    /\ UNCHANGED auxVars

\* openai-realtime-2.ts:116-121, main.ts:111-123: voice.speak resolved
SpeakDone(t, hasAudio) ==
    /\ tasks[t].pc = "speak"
    /\ IF hasAudio
       THEN /\ currentAudioPlayer' = t
            /\ players' = (t :> play(NewAudioPlayer)) @@ players
            /\ cancelCalls' = (t :> 0) @@ cancelCalls
            /\ tasks' = [tasks EXCEPT ![t].pc = "play"]
            /\ UNCHANGED <<isPlaying, lastSilenceTime>>
       ELSE /\ isPlaying' = FALSE
            /\ FinishTask(t, "noAudio", "none")
            /\ UNCHANGED <<currentAudioPlayer, players, cancelCalls>>
    /\ UNCHANGED <<accumulatedAudioBuffer, conversationHistory, now, handled>>
    /\ UNCHANGED auxVars

\* the catch block without main.ts:128
Mut_BackendFail(t) ==
    /\ CommitInFlight(t)
    /\ FinishTask(t, "commitFailed", tasks[t].pc)
    /\ UNCHANGED <<isPlaying, currentAudioPlayer, accumulatedAudioBuffer,
                   conversationHistory, players, now, handled, cancelCalls>>
    /\ UNCHANGED auxVars

\* openai-realtime-2.ts:122-125, main.ts:125-129: listen, generate or speak threw
BackendFail(t) ==
    /\ CommitInFlight(t)
    /\ isPlaying' = FALSE
    /\ FinishTask(t, "commitFailed", tasks[t].pc)
    /\ UNCHANGED <<currentAudioPlayer, accumulatedAudioBuffer, conversationHistory,
                   players, now, handled, cancelCalls>>
    /\ UNCHANGED auxVars

\* An event of player p leaves it as pl.  When this settles the play() call
\* that processAndRespondToMessage awaits, the engine continues
\* (main.ts:120-124 after resolve, main.ts:125-129 after reject).
PlayerStep(p, pl) ==
    /\ players' = [players EXCEPT ![p] = pl]
    /\ IF /\ p <= Len(tasks)
          /\ tasks[p].pc = "play"
          /\ pl.calls[1].settled # "pending"
       THEN IF pl.calls[1].settled = "resolved"
            THEN /\ currentAudioPlayer' = NoPlayer
                 /\ isPlaying' = FALSE
                 /\ FinishTask(p, "played", "none")
            ELSE /\ isPlaying' = FALSE
                 /\ FinishTask(p, "playFailed", "none")
                 /\ UNCHANGED currentAudioPlayer
       ELSE UNCHANGED <<isPlaying, lastSilenceTime, currentAudioPlayer, tasks>>
    /\ UNCHANGED <<accumulatedAudioBuffer, conversationHistory, now, handled,
                   cancelCalls>>
    /\ UNCHANGED auxVars

StreamEnd(p) ==
    /\ players[p].stream = "flowing"
    /\ PlayerStep(p, onStreamEnd(players[p]))

FileFinish(p, c, spawned) ==
    /\ players[p].stream = "ended"
    /\ players[p].calls[c].phase = "staging"
    /\ PlayerStep(p, onFileFinish(players[p], c, spawned))

FileError(p, c, created) ==
    /\ players[p].calls[c].phase = "staging"
    /\ PlayerStep(p, onFileError(players[p], c, created))

ProcExit(p, k, code) ==
    /\ players[p].procs[k].state = "running"
    /\ PlayerStep(p, procExit(players[p], k, code))

ProcClose(p, k) ==
    /\ players[p].procs[k].state \in {"exited", "killed", "errored"}
    /\ PlayerStep(p, onProcClose(players[p], k))

ProcError(p, k) ==
    /\ players[p].procs[k].state = "spawnfail"
    /\ PlayerStep(p, onProcError(players[p], k))

Init ==
    /\ isPlaying = FALSE
    /\ lastSilenceTime = NoTime
    /\ currentAudioPlayer = NoPlayer
    /\ accumulatedAudioBuffer = <<>>
    /\ conversationHistory = <<>>
    /\ tasks = <<>>
    /\ players = <<>>
    /\ now = ClockStep
    /\ handled = <<>>
    /\ cancelCalls = <<>>
    /\ AuxIdle

\* The engine never looks at the temp files: of the two outcomes of a failed
\* staging it is given the one that leaves the file; SpecPlayer has both.
Next ==
    \/ \E audioChunk \in ChunkBuffers : \E elapsed \in ElapsedTimes :
          onCapture(audioChunk, elapsed)
    \/ \E t \in DOMAIN tasks : ListenDone(t)
    \/ \E t \in DOMAIN tasks : GenerateDone(t)
    \/ \E t \in DOMAIN tasks : \E hasAudio \in BOOLEAN : SpeakDone(t, hasAudio)
    \/ \E t \in DOMAIN tasks : BackendFail(t)
    \/ \E p \in PlayerIds : StreamEnd(p)
    \/ \E p \in PlayerIds : \E c \in DOMAIN players[p].calls :
          \E spawned \in BOOLEAN : FileFinish(p, c, spawned)
    \/ \E p \in PlayerIds : \E c \in DOMAIN players[p].calls : FileError(p, c, TRUE)
    \/ \E p \in PlayerIds : \E k \in DOMAIN players[p].procs :
          \E code \in ExitCodes : ProcExit(p, k, code)
    \/ \E p \in PlayerIds : \E k \in DOMAIN players[p].procs : ProcClose(p, k)
    \/ \E p \in PlayerIds : \E k \in DOMAIN players[p].procs : ProcError(p, k)

Spec == Init /\ [][Next]_vars

---------------------------------------------------------------------------
(* The engine and the backend with a finer clock: chunks arrive 0, 1, 2 or *)
(* 3 GateSteps after the previous one.  No event of a player happens: a    *)
(* reply that has audio stays in the staging of play().                    *)

GateElapsedTimes == {0, GateStep, 2 * GateStep, 3 * GateStep}

NextGate ==
    \/ \E audioChunk \in ChunkBuffers : \E elapsed \in GateElapsedTimes :
          onCapture(audioChunk, elapsed)
    \/ \E t \in DOMAIN tasks : ListenDone(t)
    \/ \E t \in DOMAIN tasks : GenerateDone(t)
    \/ \E t \in DOMAIN tasks : \E hasAudio \in BOOLEAN : SpeakDone(t, hasAudio)
    \/ \E t \in DOMAIN tasks : BackendFail(t)

SpecGate == Init /\ [][NextGate]_vars

---------------------------------------------------------------------------
(* AudioPlayer on its own: one player, play() and cancel() called at any   *)
(* time by its user.                                                       *)

CallPlay(p) ==
    /\ Len(players[p].calls) < MaxPlayCalls
    /\ PlayerStep(p, play(players[p]))

CallCancel(p) ==
    /\ cancelCalls[p] < MaxCancels
    /\ players' = [players EXCEPT ![p] = cancel(@)]
    /\ cancelCalls' = [cancelCalls EXCEPT ![p] = @ + 1]
    /\ UNCHANGED engineVars
    /\ UNCHANGED auxVars

InitPlayer ==
    /\ isPlaying = FALSE
    /\ lastSilenceTime = NoTime
    /\ currentAudioPlayer = NoPlayer
    /\ accumulatedAudioBuffer = <<>>
    /\ conversationHistory = <<>>
    /\ tasks = <<>>
    /\ players = <<NewAudioPlayer>>
    /\ now = ClockStep
    /\ handled = <<>>
    /\ cancelCalls = <<0>>
    /\ AuxIdle

NextPlayer ==
    \/ \E p \in PlayerIds : CallPlay(p)
    \/ \E p \in PlayerIds : CallCancel(p)
    \/ \E p \in PlayerIds : StreamEnd(p)
    \/ \E p \in PlayerIds : \E c \in DOMAIN players[p].calls :
          \E spawned \in BOOLEAN : FileFinish(p, c, spawned)
    \/ \E p \in PlayerIds : \E c \in DOMAIN players[p].calls :
          \E created \in BOOLEAN : FileError(p, c, created)
    \/ \E p \in PlayerIds : \E k \in DOMAIN players[p].procs :
          \E code \in ExitCodes : ProcExit(p, k, code)
    \/ \E p \in PlayerIds : \E k \in DOMAIN players[p].procs : ProcClose(p, k)
    \/ \E p \in PlayerIds : \E k \in DOMAIN players[p].procs : ProcError(p, k)

SpecPlayer == InitPlayer /\ [][NextPlayer]_vars

---------------------------------------------------------------------------
(* AudioRecorder on its own: it is constructed from a configuration, its   *)
(* user calls init() and stop() at any time, and its timers fire when due. *)
(* Time does not pass a timer that is due.                                 *)

EngineIdle ==
    /\ isPlaying = FALSE
    /\ lastSilenceTime = NoTime
    /\ currentAudioPlayer = NoPlayer
    /\ accumulatedAudioBuffer = <<>>
    /\ conversationHistory = <<>>
    /\ tasks = <<>>
    /\ players = <<>>
    /\ now = ClockStep
    /\ handled = <<>>
    /\ cancelCalls = <<>>

Construct(config) ==
    /\ ~recorder.constructed
    /\ recorder' = NewAudioRecorder(config)
    /\ UNCHANGED <<clock, recorderCalls, detector, engineVars, players, cancelCalls,
                   sigint, realtime>>

RecorderCall(op) ==
    /\ recorder.constructed
    /\ Len(recorderCalls) < MaxRecorderCalls
    /\ recorderCalls' = Append(recorderCalls, [op |-> op, at |-> clock,
                                               wasRecording |-> recorder.isRecording])
    /\ UNCHANGED <<clock, detector, engineVars, players, cancelCalls,
                   sigint, realtime>>

CallInit ==
    /\ RecorderCall("init")
    /\ Len(recorder.sessions) < MaxSessions
    /\ recorder' = init(recorder, clock)

CallStop ==
    /\ RecorderCall("stop")
    /\ recorder' = stop(recorder, clock)

IntervalFire(i) ==
    /\ recorder.intervals[i] = clock
    /\ Len(recorder.sessions) < MaxSessions
    /\ recorder' = onInterval(recorder, i, clock)
    /\ UNCHANGED <<clock, recorderCalls, detector, engineVars, players, cancelCalls,
                   sigint, realtime>>

SessionTimeout(s) ==
    /\ recorder.sessions[s].durationTimeout = clock
    /\ recorder' = sessionStop(recorder, s, clock)
    /\ UNCHANGED <<clock, recorderCalls, detector, engineVars, players, cancelCalls,
                   sigint, realtime>>

\* the earliest of the times in a non-empty set
Earliest(T) == CHOOSE t \in T : \A u \in T : t <= u

TimePasses ==
    LET due  == DueTimes(recorder)
        next == IF due # {} /\ Earliest(due) < clock + TimeStep
                THEN Earliest(due) ELSE clock + TimeStep
    IN  /\ recorder.constructed
        /\ \A t \in due : t > clock
        /\ next <= MaxTime
        /\ clock' = next
        /\ UNCHANGED <<recorder, recorderCalls, detector, engineVars, players, cancelCalls,
                   sigint, realtime>>

InitRecorder ==
    /\ EngineIdle
    /\ AuxIdle

NextRecorder ==
    \/ \E config \in RecorderConfigs : Construct(config)
    \/ CallInit
    \/ CallStop
    \/ \E i \in DOMAIN recorder.intervals : IntervalFire(i)
    \/ \E s \in DOMAIN recorder.sessions : SessionTimeout(s)
    \/ TimePasses

SpecRecorder == InitRecorder /\ [][NextRecorder]_vars

---------------------------------------------------------------------------
(* detectSilence on its own: one call on a buffer and a threshold.         *)

Detect ==
    /\ detector.phase = "called"
    /\ detector' = [detector EXCEPT !.phase = "returned",
                                    !.result = detectSilenceBytes(detector.buffer,
                                                                  detector.options)]
    /\ UNCHANGED <<recorder, clock, recorderCalls, engineVars, players, cancelCalls,
                   sigint, realtime>>

InitDetect ==
    /\ EngineIdle
    /\ recorder = NoRecorder
    /\ clock = 0
    /\ recorderCalls = <<>>
    /\ detector \in [phase : {"called"}, buffer : ByteBuffers,
                     options : ThresholdOptions, result : {NoResult}]
    /\ sigint = NoSigint
    /\ realtime = NoRealtime

NextDetect == Detect

SpecDetect == InitDetect /\ [][NextDetect]_vars

---------------------------------------------------------------------------
(* Teardown: the engine as in Spec until SIGINT arrives.  The handler      *)
(* (main.ts:133-139) has no await, so nothing else runs between its steps: *)
(* stopAudio() and the head of audioCapture.stop(), then one step for each *)
(* open capture session, whose stop() hands its buffer to handleAudioChunk *)
(* in the same turn, then realtimeConversation.close() and process.exit(). *)
(* After the exit nothing runs.                                            *)

\* main.ts:31-38: chunks of 2 s.  The model counts whole seconds: the overlap
\* of 0.5 s is taken as 1 s, which like 0.5 s keeps one or two sessions open.
MainRecorderConfig == [chunkLengthSeconds |-> 2, overlapSeconds |-> 1]

\* the time at which SIGINT arrives: half a second after the last session
\* of the recorder was started
SigintTime(rec) == (Len(rec.sessions) - 1) * rec.captureIntervalMs + 500

Running == sigint.phase = "running"

\* RealtimeConversation.close(): openai-realtime-2.ts:131-136
close ==
    /\ conversationHistory' = <<>>
    /\ accumulatedAudioBuffer' = <<>>

\* main.ts:135-136: SIGINT arrives elapsed ms after the last chunk, before
\* or after the first interval of the recorder; stopAudio(), then stop() up
\* to its loop over the active sessions
SigintBegin(rec, elapsed) ==
    /\ Running
    /\ now + elapsed <= ClockStep * MaxTicks
    /\ now' = now + elapsed
    /\ stopAudio
    /\ clock' = SigintTime(rec)
    /\ recorder' = clearCaptureInterval([rec EXCEPT !.isRecording = FALSE])
    /\ sigint' = [phase |-> "stopping", tasksBefore |-> Len(tasks)]
    /\ UNCHANGED <<isPlaying, lastSilenceTime, accumulatedAudioBuffer,
                   conversationHistory, tasks, handled, recorderCalls, detector,
                   realtime>>

\* the loop of stop(): the next active session stops and its onComplete
\* calls handleAudioChunk with the audio recorded so far
SigintDeliver(audioChunk) ==
    /\ sigint.phase = "stopping"
    /\ recorder.activeSessions # {}
    /\ LET s == CHOOSE x \in recorder.activeSessions :
                    \A y \in recorder.activeSessions : x <= y
       IN  recorder' = sessionStop(recorder, s, clock)
    /\ now' = now
    /\ handled' = Append(handled, [buffer |-> audioChunk, t |-> now,
                                   silent |-> detectSilence(audioChunk),
                                   playing |-> isPlaying])
    /\ handleAudioChunk(Len(handled) + 1, audioChunk)
    /\ UNCHANGED <<clock, recorderCalls, detector, sigint, realtime>>

\* the end of stop(), close() and process.exit(0): main.ts:137-138
SigintEnd ==
    /\ sigint.phase = "stopping"
    /\ recorder.activeSessions = {}
    /\ recorder' = [recorder EXCEPT !.activeSessions = {}]
    /\ close
    /\ sigint' = [sigint EXCEPT !.phase = "exited"]
    /\ UNCHANGED <<isPlaying, lastSilenceTime, currentAudioPlayer, tasks, players,
                   now, handled, cancelCalls, clock, recorderCalls, detector,
                   realtime>>

\* main.ts:40: the recorder is started before the first chunk
InitTeardown ==
    /\ EngineIdle
    /\ recorder = init(NewAudioRecorder(MainRecorderConfig), 0)
    /\ clock = 0
    /\ recorderCalls = <<>>
    /\ detector = NoDetection
    /\ sigint = NoSigint
    /\ realtime = NoRealtime

\* the capture sessions of the running engine are not followed: chunks
\* arrive as in Spec, and the recorder is looked at when SIGINT arrives
NextTeardown ==
    \/ \E audioChunk \in ChunkBuffers : \E elapsed \in ElapsedTimes :
          Running /\ onCapture(audioChunk, elapsed)
    \/ \E t \in DOMAIN tasks : Running /\ ListenDone(t)
    \/ \E t \in DOMAIN tasks : Running /\ GenerateDone(t)
    \/ \E t \in DOMAIN tasks : \E hasAudio \in BOOLEAN :
          Running /\ SpeakDone(t, hasAudio)
    \/ \E t \in DOMAIN tasks : Running /\ BackendFail(t)
    \/ \E p \in PlayerIds : Running /\ StreamEnd(p)
    \/ \E p \in PlayerIds : \E c \in DOMAIN players[p].calls :
          \E spawned \in BOOLEAN : Running /\ FileFinish(p, c, spawned)
    \/ \E p \in PlayerIds : \E c \in DOMAIN players[p].calls :
          Running /\ FileError(p, c, TRUE)
    \/ \E p \in PlayerIds : \E k \in DOMAIN players[p].procs :
          \E code \in ExitCodes : Running /\ ProcExit(p, k, code)
    \/ \E p \in PlayerIds : \E k \in DOMAIN players[p].procs :
          Running /\ ProcClose(p, k)
    \/ \E p \in PlayerIds : \E k \in DOMAIN players[p].procs :
          Running /\ ProcError(p, k)
    \/ \E rec \in {recorder, onInterval(recorder, 1, recorder.captureIntervalMs)} :
          \E elapsed \in ElapsedTimes : SigintBegin(rec, elapsed)
    \/ \E audioChunk \in ChunkBuffers : SigintDeliver(audioChunk)
    \/ SigintEnd

SpecTeardown == InitTeardown /\ [][NextTeardown]_vars

---------------------------------------------------------------------------
(* OpenAIRealtime (capture-audio-from-mic.ts:229-412) on its own: its user *)
(* calls connect() and disconnect() at any time, awaited or not, and the   *)
(* WebSockets emit their events.  A socket is "connecting", "open",        *)
(* "aborted" (close() before the connection was established: 'error' and   *)
(* 'close' are still to be emitted), "closing" (close() on an open socket: *)
(* 'close' is still to be emitted) or "closed".  promise is the promise    *)
(* returned by the connect() that created the socket, and call the place   *)
(* of that connect() in the log of the calls.                              *)

MaxSockets == 3
MaxRealtimeCalls == 4

logCall(rt, op, threw) == [rt EXCEPT !.calls = Append(@, [op |-> op, threw |-> threw])]

\* connect(): capture-audio-from-mic.ts:245-312, up to the return of the promise
connect(rt) ==
    IF rt.isConnected
    THEN logCall(rt, "connect", TRUE)
    ELSE [logCall(rt, "connect", FALSE) EXCEPT
              !.sockets = Append(@, [state |-> "connecting", promise |-> "pending",
                                     call |-> Len(rt.calls) + 1, sent |-> 0]),
              !.ws = Len(rt.sockets) + 1]

\* WebSocket.close(), called by disconnect()
wsClose(socket) ==
    IF socket.state = "connecting" THEN [socket EXCEPT !.state = "aborted"]
    ELSE IF socket.state = "open" THEN [socket EXCEPT !.state = "closing"]
    ELSE socket

\* disconnect(): capture-audio-from-mic.ts:361-367
disconnect(rt) ==
    IF rt.ws # NoSocket
    THEN [logCall(rt, "disconnect", FALSE) EXCEPT !.sockets[rt.ws] = wsClose(@),
                                                  !.ws = NoSocket,
                                                  !.isConnected = FALSE]
    ELSE logCall(rt, "disconnect", FALSE)

\* WebSocket.send(): an open socket sends the message, a connecting one
\* throws, and a socket that is closing or closed drops it
wsSend(socket) ==
    IF socket.state = "open" THEN [socket EXCEPT !.sent = @ + 1] ELSE socket

\* sendAudio(), commitAudio() and updateSession():
\* capture-audio-from-mic.ts:318-337, 343-356, 374-412
SendOps == {"sendAudio", "commitAudio", "updateSession"}

send(rt, op) ==
    IF ~rt.isConnected \/ rt.ws = NoSocket
    THEN logCall(rt, op, TRUE)
    ELSE [logCall(rt, op, rt.sockets[rt.ws].state = "connecting") EXCEPT
              !.sockets[rt.ws] = wsSend(@)]

\* the 'open' handler of socket s: capture-audio-from-mic.ts:280-284
onOpen(rt, s) ==
    [rt EXCEPT !.isConnected = TRUE,
               !.sockets[s].promise = IF @ = "pending" THEN "resolved" ELSE @]

\* the 'error' handler of socket s: capture-audio-from-mic.ts:296-300
onError(rt, s) ==
    [rt EXCEPT !.sockets[s].promise = IF @ = "pending" THEN "rejected" ELSE @]

\* the 'close' handler of socket s: capture-audio-from-mic.ts:302-306
onClose(rt, s) == [rt EXCEPT !.isConnected = FALSE]

RealtimeStep(rt) ==
    /\ realtime' = rt
    /\ UNCHANGED <<engineVars, players, cancelCalls, recorder, clock, recorderCalls,
                   detector, sigint>>

CallConnect ==
    /\ Len(realtime.calls) < MaxRealtimeCalls
    /\ realtime.isConnected \/ Len(realtime.sockets) < MaxSockets
    /\ RealtimeStep(connect(realtime))

CallDisconnect ==
    /\ Len(realtime.calls) < MaxRealtimeCalls
    /\ RealtimeStep(disconnect(realtime))

CallSend(op) ==
    /\ Len(realtime.calls) < MaxRealtimeCalls
    /\ RealtimeStep(send(realtime, op))

\* the connection of socket s is established
SocketOpen(s) ==
    /\ realtime.sockets[s].state = "connecting"
    /\ RealtimeStep(onOpen([realtime EXCEPT !.sockets[s].state = "open"], s))

\* the connection of socket s fails, or was closed before it was established:
\* the socket emits 'error' and then 'close'
SocketFail(s) ==
    /\ realtime.sockets[s].state \in {"connecting", "aborted"}
    /\ RealtimeStep(onClose(onError([realtime EXCEPT !.sockets[s].state = "closed"], s), s))

\* the connection of socket s ends, closed by this side or by the server
SocketClose(s) ==
    /\ realtime.sockets[s].state \in {"open", "closing"}
    /\ RealtimeStep(onClose([realtime EXCEPT !.sockets[s].state = "closed"], s))

InitRealtime ==
    /\ EngineIdle
    /\ AuxIdle

NextRealtime ==
    \/ CallConnect
    \/ CallDisconnect
    \/ \E op \in SendOps : CallSend(op)
    \/ \E s \in DOMAIN realtime.sockets : SocketOpen(s)
    \/ \E s \in DOMAIN realtime.sockets : SocketFail(s)
    \/ \E s \in DOMAIN realtime.sockets : SocketClose(s)

SpecRealtime == InitRealtime /\ [][NextRealtime]_vars

---------------------------------------------------------------------------
(* Properties                                                              *)

\* this step is the handling of a chunk by handleAudioChunk
ChunkStep == Len(handled') = Len(handled) + 1

\* the chunk handled by this step
ThisChunk == handled'[Len(handled')]

Range(seq) == {seq[i] : i \in DOMAIN seq}

\* chunk i was handled while the engine was Speaking and it was not silent
Interrupting(i) == handled[i].playing /\ ~handled[i].silent

\* the afplay processes that produce sound
RunningProcs == {<<p, k>> \in PlayerIds \X (1..MaxPlayCalls) :
                    /\ k \in DOMAIN players[p].procs
                    /\ players[p].procs[k].state = "running"}

\* C1: a chunk handled while isPlaying = true is never appended to the
\* utterance buffer and starts no commit: a silent one changes nothing, a
\* non-silent one puts the engine back in Listening.
C1_NoAccumulationWhilePlaying ==
    [][ (ChunkStep /\ isPlaying) =>
            /\ accumulatedAudioBuffer' = accumulatedAudioBuffer
            /\ tasks' = tasks
            /\ isPlaying' = ThisChunk.silent ]_vars

C1_Witness ==
    \E i, j \in DOMAIN handled :
        /\ handled[i].playing /\ handled[i].silent
        /\ handled[j].playing /\ ~handled[j].silent

\* C2: a non-silent chunk handled while isPlaying = true calls cancel() exactly
\* once on every playback whose process is running, puts the engine in
\* Listening, leaves the utterance buffer unchanged, and is part of the audio
\* of no commit.
C2_BargeIn ==
    [][ (ChunkStep /\ isPlaying /\ ~ThisChunk.silent) =>
            /\ \A pk \in RunningProcs : cancelCalls'[pk[1]] = cancelCalls[pk[1]] + 1
            /\ \A p \in PlayerIds : cancelCalls'[p] <= cancelCalls[p] + 1
            /\ isPlaying' = FALSE
            /\ accumulatedAudioBuffer' = accumulatedAudioBuffer
            /\ \A t \in DOMAIN tasks : \A i \in Range(tasks[t].audio) : ~Interrupting(i) ]_vars

\* the ids of the non-silent chunks among the first n handled, in arrival order
NonSilentIds(n) == SelectSeq([i \in 1..n |-> i], LAMBDA i : ~handled[i].silent)

\* the chunks handled so far are non-silent chunks followed by silent chunks
SpeechThenSilence ==
    \A i, j \in DOMAIN handled : (i < j /\ handled[i].silent) => handled[j].silent

SilentIds == {i \in DOMAIN handled : handled[i].silent}

FirstSilent == CHOOSE i \in SilentIds : \A j \in SilentIds : i <= j

\* the silent chunks handled at least silenceTimeThreshold after the first one
Confirming ==
    {j \in SilentIds : handled[j].t - handled[FirstSilent].t >= silenceTimeThreshold}

FirstConfirming == CHOOSE j \in Confirming : \A i \in Confirming : j <= i

C4_OneCommitInFlight ==
    Cardinality({t \in DOMAIN tasks : CommitInFlight(t)}) <= 1

\* C5: when a chunk is handled, the handler of every earlier chunk has returned.
C5_Serialized ==
    [][ ChunkStep => \A t \in DOMAIN tasks : ~HandlerPending(t) ]_vars

\* the handler of task t ends in this step with a failed commit or playback
FailsNow(t) ==
    /\ tasks[t].pc # "done"
    /\ tasks'[t].pc = "done"
    /\ tasks'[t].result \in {"commitFailed", "playFailed"}

\* C6: the step that handles a failed commit or a failed playback leaves the
\* engine in Listening, and a non-silent chunk handled in Listening is
\* appended to the utterance buffer.
C6_FailureReturnsToListening ==
    [][ /\ \A t \in DOMAIN tasks : FailsNow(t) => isPlaying' = FALSE
        /\ (ChunkStep /\ ~isPlaying /\ ~ThisChunk.silent) =>
              accumulatedAudioBuffer' = Append(accumulatedAudioBuffer, Len(handled')) ]_vars

C6_Witness ==
    /\ ~isPlaying
    /\ \E t \in DOMAIN tasks : tasks[t].result = "commitFailed"
    /\ \E t \in DOMAIN tasks : tasks[t].result = "playFailed"

\* C7: when speech-to-text or agent generation of a commit fails, the
\* utterance buffer is empty once the failure is handled, and no later commit
\* contains a chunk of the failed commit.
C7_FailedUtteranceDiscarded ==
    [][ /\ \A t \in DOMAIN tasks :
              (FailsNow(t) /\ tasks'[t].failedAt \in {"listen", "generate"}) =>
                  accumulatedAudioBuffer' = <<>>
        /\ \A t, u \in DOMAIN tasks :
              (t < u /\ tasks[t].failedAt \in {"listen", "generate"}) =>
                  Range(tasks[t].audio) \cap Range(tasks[u].audio) = {} ]_vars

\* C9: at most one afplay process is running.
C9_OnePlaybackJob == Cardinality(RunningProcs) <= 1

\* the play() call made by this step on player p
NewCall(p) == players'[p].calls[Len(players'[p].calls)]

PendingCalls(p) == {c \in DOMAIN players[p].calls : players[p].calls[c].settled = "pending"}

\* C8: a play() call made while an earlier play() call of the same player is
\* pending is rejected with the already-playing error, and a player never has
\* two running processes.
C8_SecondPlayRejected ==
    [][ \A p \in PlayerIds :
          /\ (Len(players'[p].calls) = Len(players[p].calls) + 1 /\ PendingCalls(p) # {}) =>
                 /\ NewCall(p).settled = "rejected"
                 /\ NewCall(p).err = "AlreadyPlaying"
          /\ Cardinality({k \in DOMAIN players'[p].procs :
                             players'[p].procs[k].state = "running"}) <= 1 ]_vars

\* no play() call of the player is pending and every process it spawned has
\* reported its termination
Quiet(pl) ==
    /\ \A c \in DOMAIN pl.calls : pl.calls[c].settled # "pending"
    /\ \A k \in DOMAIN pl.procs : pl.procs[k].state = "closed"

\* C10: cancel() is idempotent: a second cancel() right after a first one
\* changes nothing, cancel() on a player with nothing pending (never played,
\* or playback finished) changes nothing, and no process is sent a signal twice.
C10_CancelIdempotent ==
    \A p \in PlayerIds :
        LET pl == players[p] IN
        /\ cancel(cancel(pl)) = cancel(pl)
        /\ Quiet(pl) => (cancel(pl) = pl /\ ~pl.playing /\ pl.afplayProcess = NoProcess
                                          /\ pl.tempFilePath = NoFile)
        /\ \A k \in DOMAIN pl.procs : pl.procs[k].signals <= 1

C10_Witness ==
    \E p \in PlayerIds :
        /\ cancelCalls[p] = 2
        /\ Quiet(players[p])
        /\ \E k \in DOMAIN players[p].procs : players[p].procs[k].killed
        /\ \E k \in DOMAIN players[p].procs : players[p].procs[k].code = 1

\* C11: once cancel() has been called on a player after its play() call was
\* made (the engine calls cancel() only on the player whose play() it
\* started), no afplay process of that player is running, whatever the phase
\* of play() was at the time of the cancel -- staging included.
C11_CancelStopsPlayback ==
    \A p \in PlayerIds :
        cancelCalls[p] > 0 =>
            \A k \in DOMAIN players[p].procs : players[p].procs[k].state # "running"

\* C12: the promise of a play() call is resolved only if its process was
\* killed by a cancel or exited with code 0, and it is rejected when staging
\* failed, when the spawn failed and when the process exited by itself with a
\* non-zero code.
C12_PlaySettlesByOutcome ==
    \A p \in PlayerIds :
        LET pl == players[p] IN
        /\ \A c \in DOMAIN pl.calls :
              pl.calls[c].phase = "failed" => pl.calls[c].settled = "rejected"
        /\ \A k \in DOMAIN pl.procs :
              /\ pl.procs[k].state = "errored" =>
                     pl.calls[pl.procs[k].call].settled = "rejected"
              /\ (pl.procs[k].state = "closed" /\ ~pl.procs[k].killed
                                               /\ pl.procs[k].code # 0) =>
                     pl.calls[pl.procs[k].call].settled = "rejected"
              /\ pl.calls[pl.procs[k].call].settled = "resolved" =>
                     pl.procs[k].state = "closed"

\* C13: once the play() call of a player has settled and every process it
\* spawned has reported its termination, no temp file of the player is left:
\* tempFilePath is null and no staged file exists on disk.
C13_TempFileReleased ==
    \A p \in PlayerIds :
        (players[p].calls # <<>> /\ Quiet(players[p])) =>
            /\ players[p].tempFilePath = NoFile
            /\ players[p].files = {}

\* stop() has not been called on the recorder
NeverStopped == \A c \in DOMAIN recorderCalls : recorderCalls[c].op = "init"

\* C14: with chunkLength = 5 s and overlap = 1 s, after a first init() at
\* time T0 and as long as stop() is not called, the sessions are started at
\* T0, T0 + 4 s, T0 + 8 s, ... (one at every multiple of 4 s reached so
\* far), and each of them delivers one chunk, 5 s after its start, holding the
\* 5 s of audio recorded since its start.
C14_WindowSchedule ==
    ( /\ recorder.constructed
      /\ recorder.chunkLengthSeconds = 5
      /\ recorder.overlapSeconds = 1
      /\ recorderCalls # <<>>
      /\ NeverStopped ) =>
        LET T0 == recorderCalls[1].at
            n  == Len(recorder.sessions)
        IN  /\ n >= 1
            /\ \A s \in 1..n : recorder.sessions[s].start = T0 + 4000 * (s - 1)
            /\ clock <= T0 + 4000 * n
            /\ \A s \in 1..n :
                  LET session == recorder.sessions[s] IN
                  IF session.delivered = <<>>
                  THEN session.isActive /\ clock <= session.start + 5000
                  ELSE session.delivered = <<[at |-> session.start + 5000, audio |-> 5000]>>

C14_Witness ==
    /\ recorder.chunkLengthSeconds = 5
    /\ recorder.overlapSeconds = 1
    /\ recorderCalls # <<>>
    /\ NeverStopped
    /\ recorderCalls[1].at = 0
    /\ Len(recorder.sessions) = 3
    /\ recorder.sessions[3].start = 8000
    /\ recorder.sessions[1].delivered # <<>>
    /\ recorder.sessions[2].delivered # <<>>
    /\ clock = 9000

\* this step is a call of init() or stop() on the recorder
RecorderCallStep == Len(recorderCalls') = Len(recorderCalls) + 1

ThisCall == recorderCalls'[Len(recorderCalls')]

\* C15: a stop() made while recording leaves the recorder not recording with
\* its interval cleared and its active set empty; every session that was
\* active is terminated (not active, timer cleared, recorder stopped) and
\* its partial buffer is delivered by that step, the other sessions are
\* untouched; and no session ever has more than one delivery.
C15_StopDeliversPartials ==
    [][ /\ (RecorderCallStep /\ ThisCall.op = "stop" /\ recorder.isRecording) =>
              /\ ~recorder'.isRecording
              /\ recorder'.activeSessions = {}
              /\ \A i \in DOMAIN recorder'.intervals : recorder'.intervals[i] = NoTimer
              /\ \A s \in DOMAIN recorder.sessions :
                    IF s \in recorder.activeSessions
                    THEN /\ ~recorder'.sessions[s].isActive
                         /\ recorder'.sessions[s].durationTimeout = NoTimer
                         /\ ~recorder'.sessions[s].recording
                         /\ recorder'.sessions[s].delivered =
                               <<[at |-> clock, audio |-> clock - recorder.sessions[s].start]>>
                    ELSE recorder'.sessions[s] = recorder.sessions[s]
        /\ recorder'.activeSessions =
              {s \in DOMAIN recorder'.sessions : recorder'.sessions[s].isActive}
        /\ \A s \in DOMAIN recorder'.sessions : Len(recorder'.sessions[s].delivered) <= 1 ]_vars

C15_Witness ==
    \E c \in DOMAIN recorderCalls :
        /\ recorderCalls[c].op = "stop"
        /\ recorderCalls[c].wasRecording
        /\ Cardinality({s \in DOMAIN recorder.sessions :
                           /\ recorder.sessions[s].delivered # <<>>
                           /\ recorder.sessions[s].delivered[1].at = recorderCalls[c].at
                           /\ recorder.sessions[s].delivered[1].audio
                                 < recorder.chunkLengthSeconds * 1000}) >= 2
        /\ \E s \in DOMAIN recorder.sessions :
              /\ recorder.sessions[s].delivered # <<>>
              /\ recorder.sessions[s].delivered[1].audio = recorder.chunkLengthSeconds * 1000

\* C16: init() called while recording and stop() called while not recording
\* (a second stop() in particular) leave the recorder as it is: no session is
\* started, stopped or delivered, no interval is created; and the recorder
\* never has two intervals.
C16_InitStopIdempotent ==
    [][ /\ (RecorderCallStep /\ ThisCall.op = "init" /\ ThisCall.wasRecording) =>
              recorder' = recorder
        /\ (RecorderCallStep /\ ThisCall.op = "stop" /\ ~ThisCall.wasRecording) =>
              recorder' = recorder
        /\ Cardinality({i \in DOMAIN recorder'.intervals :
                           recorder'.intervals[i] # NoTimer}) <= 1 ]_vars

C16_Witness ==
    /\ \E c \in DOMAIN recorderCalls :
          recorderCalls[c].op = "init" /\ recorderCalls[c].wasRecording
    /\ \E c \in DOMAIN recorderCalls : c > 1 /\
          /\ recorderCalls[c].op = "stop" /\ ~recorderCalls[c].wasRecording
          /\ recorderCalls[c - 1].op = "stop" /\ recorderCalls[c - 1].wasRecording
    /\ recorder.sessions # <<>>

\* C17: a recorder that was constructed has a positive capture interval: a
\* configuration with overlap >= chunk length is rejected by the constructor.
C17_InvalidConfigRejected ==
    recorder.constructed => recorder.captureIntervalMs > 0

\* the j-th little-endian signed 16-bit sample of a buffer, j from 1
SampleAt(buffer, j) ==
    buffer[2 * j - 1] + 256 * (buffer[2 * j] % 128) - 32768 * (buffer[2 * j] \div 128)

\* the whole samples of a buffer
Samples(buffer) == [j \in 1..(Len(buffer) \div 2) |-> SampleAt(buffer, j)]

\* C18: for a buffer of even non-zero length, detectSilence returns normally;
\* rmsValue is the root mean square of the little-endian signed 16-bit
\* samples over 32768 (as its square: the sum of the squared samples over
\* their number), and isSilent is true exactly when that RMS is strictly
\* below the threshold, which is 0.02 when the caller gives none.
C18_RmsAndThreshold ==
    ( /\ detector.phase = "returned"
      /\ Len(detector.buffer) > 0
      /\ Len(detector.buffer) % 2 = 0 ) =>
        LET samples   == Samples(detector.buffer)
            threshold == IF detector.options = NoThreshold
                         THEN [num |-> 2, den |-> 100] ELSE detector.options
            result    == detector.result
        IN  /\ ~result.threw
            /\ ~result.isNaN
            /\ result.sumOfSquares = SumOfSquares(samples)
            /\ result.halfLength = Len(samples)
            /\ result.isSilent <=>
                  (SumOfSquares(samples) * ((threshold.den * threshold.den) \div 16)
                      < threshold.num * threshold.num * 67108864 * Len(samples))
            /\ detector.options = NoThreshold => result.isSilent = detectSilence(samples)

C18_Witness ==
    /\ detector.phase = "returned"
    /\ detector.buffer = <<0, 2, 0, 2>>
    /\ detector.options = [num |-> 1, den |-> 64]
    /\ detector.result.sumOfSquares = 2 * 512 * 512
    /\ ~detector.result.isSilent

\* C19: detectSilence returns normally on a buffer of odd length, with the
\* result it gives for the buffer without its last byte.
C19_OddLengthTolerated ==
    (detector.phase = "returned" /\ Len(detector.buffer) % 2 = 1) =>
        /\ ~detector.result.threw
        /\ detector.result =
              detectSilenceBytes(SubSeq(detector.buffer, 1, Len(detector.buffer) - 1),
                                 detector.options)

\* C20: a buffer whose bytes are all zero, the empty buffer included, is
\* silent for every positive threshold (stated for the buffers of even
\* length, which hold whole samples only).
C20_ZeroBufferIsSilent ==
    ( /\ detector.phase = "returned"
      /\ Len(detector.buffer) % 2 = 0
      /\ \A i \in DOMAIN detector.buffer : detector.buffer[i] = 0 ) =>
        /\ ~detector.result.threw
        /\ detector.result.isSilent

\* this step calls processAndRespondToMessage: a commit is triggered
CommitStep == Len(tasks') = Len(tasks) + 1

\* the non-silent chunks among the first n handled
NonSilentUpTo(n) == {i \in 1..n : ~handled[i].silent}

\* the first chunk after the last non-silent one among the first n handled
\* (chunk 1 when there is none)
FirstSilentSince(n) ==
    IF NonSilentUpTo(n) = {} THEN 1
    ELSE (CHOOSE i \in NonSilentUpTo(n) : \A j \in NonSilentUpTo(n) : j <= i) + 1

\* C21: a commit is triggered only by a silent chunk that is not the first
\* chunk after the most recent non-silent chunk (interrupting chunks
\* included) and that is handled at least silenceTimeThreshold after that
\* first silent chunk.
C21_SilenceGate ==
    [][ CommitStep =>
          /\ ThisChunk.silent
          /\ FirstSilentSince(Len(handled)) <= Len(handled)
          /\ ThisChunk.t - handled[FirstSilentSince(Len(handled))].t
                >= silenceTimeThreshold ]_vars

\* C24: a commit in flight is not touched by the chunks handled meanwhile,
\* and its reply is applied whatever the engine state is then: the step in
\* which the agent's answer arrives empties the utterance buffer, and the
\* step in which the reply audio arrives creates the player of the commit,
\* makes it the current player and calls play() on it.
C24_ReplyStillApplied ==
    [][ \A t \in DOMAIN tasks :
          /\ ChunkStep => tasks'[t] = tasks[t]
          /\ (tasks[t].pc = "generate" /\ tasks'[t].pc = "speak") =>
                accumulatedAudioBuffer' = <<>>
          /\ (tasks[t].pc = "speak" /\ tasks'[t].pc # "speak"
                                    /\ tasks'[t].result # "commitFailed"
                                    /\ tasks'[t].result # "noAudio") =>
                /\ tasks'[t].pc = "play"
                /\ t \in DOMAIN players'
                /\ players'[t].calls[1].phase = "staging"
                /\ currentAudioPlayer' = t ]_vars

\* the reply of the only commit arrived after a non-silent chunk had
\* interrupted (no player existed yet: cancel() was never called) and after
\* another non-silent chunk had been accumulated in Listening
C24_Witness ==
    /\ Len(tasks) = 1
    /\ tasks[1].pc = "play"
    /\ cancelCalls[1] = 0
    /\ ~isPlaying
    /\ accumulatedAudioBuffer = <<>>
    /\ \E i, j \in DOMAIN handled :
          /\ tasks[1].chunk < i /\ i < j
          /\ Interrupting(i)
          /\ ~handled[j].silent /\ ~handled[j].playing

\* C25: the step that triggers a commit sets isPlaying = true, and a silent
\* chunk handled while the handler of a commit has not returned (from the
\* commit decision to the end of the playback of its reply) leaves the
\* utterance buffer alone and triggers no commit.
C25_SpeakingBeforeBackendCall ==
    [][ /\ CommitStep => isPlaying'
        /\ (ChunkStep /\ ThisChunk.silent /\ \E t \in DOMAIN tasks : HandlerPending(t)) =>
              /\ accumulatedAudioBuffer' = accumulatedAudioBuffer
              /\ tasks' = tasks ]_vars

\* C26: the step that triggers a commit clears the silence timer, and the
\* step in which the handler of a commit returns leaves the timer as it is
\* (the timer it finds was started by a later chunk).
C26_TimerClearedAtCommit ==
    [][ /\ CommitStep => lastSilenceTime' = NoTime
        /\ (\E t \in DOMAIN tasks : HandlerPending(t) /\ ~HandlerPending(t)') =>
              lastSilenceTime' = lastSilenceTime ]_vars

\* C27: no chunk is appended to the utterance buffer while commitAudioBuffer
\* is running, and when a commit empties the buffer, the buffer holds only
\* chunks of the audio that this commit sent.
C27_NoAppendDuringCommit ==
    [][ /\ (ChunkStep /\ \E t \in DOMAIN tasks : CommitInFlight(t)) =>
              accumulatedAudioBuffer' = accumulatedAudioBuffer
        /\ \A t \in DOMAIN tasks :
              (tasks[t].pc = "generate" /\ tasks'[t].pc = "speak") =>
                  Range(accumulatedAudioBuffer) \subseteq Range(tasks[t].audio) ]_vars

\* the silence timer is running and this chunk is handled at least
\* silenceTimeThreshold after its start
GateComplete ==
    /\ lastSilenceTime # NoTime
    /\ ThisChunk.t - lastSilenceTime >= silenceTimeThreshold

\* C28: a silent chunk handled in Listening that does not complete the gate
\* sets the timer to the current time when none is running and leaves it
\* unchanged otherwise; buffer, engine state, history, players and commits
\* are unchanged.
C28_SilentChunkStartsTimer ==
    [][ (ChunkStep /\ ~isPlaying /\ ThisChunk.silent /\ ~GateComplete) =>
            /\ lastSilenceTime' = IF lastSilenceTime = NoTime THEN ThisChunk.t
                                  ELSE lastSilenceTime
            /\ UNCHANGED <<isPlaying, currentAudioPlayer, accumulatedAudioBuffer,
                           conversationHistory, tasks, players, cancelCalls>> ]_vars

\* speech was accumulated, a first silent chunk started the timer and a second
\* one, handled 2 GateSteps later, left it alone
C28_Witness ==
    /\ Len(handled) = 3
    /\ ~handled[1].silent
    /\ handled[2].silent /\ handled[3].silent
    /\ handled[3].t = handled[2].t + 2 * GateStep
    /\ lastSilenceTime = handled[2].t
    /\ accumulatedAudioBuffer = <<1>>
    /\ tasks = <<>>

\* C29: a silent chunk handled while isPlaying = true changes nothing (no
\* cancel(), engine still Speaking, buffer and timer unchanged), and cancel()
\* is called on a player only by the handling of a non-silent chunk while
\* isPlaying = true.
C29_SilentChunkWhileSpeaking ==
    [][ /\ (ChunkStep /\ isPlaying /\ ThisChunk.silent) =>
              UNCHANGED <<isPlaying, lastSilenceTime, currentAudioPlayer,
                          accumulatedAudioBuffer, conversationHistory, tasks,
                          players, cancelCalls>>
        /\ (\E p \in PlayerIds : cancelCalls'[p] # cancelCalls[p]) =>
              (ChunkStep /\ isPlaying /\ ~ThisChunk.silent) ]_vars

\* a silent chunk was handled while the reply was playing, with the silence
\* timer still set, and the process is still running
C29_Witness ==
    /\ Len(tasks) = 1
    /\ tasks[1].pc = "play"
    /\ isPlaying
    /\ lastSilenceTime # NoTime
    /\ cancelCalls[1] = 0
    /\ \E k \in DOMAIN players[1].procs : players[1].procs[k].state = "running"
    /\ handled[Len(handled)].silent /\ handled[Len(handled)].playing
    /\ Len(handled) > tasks[1].chunk

\* C30: the audio of every commit holds a non-silent chunk.
C30_UtteranceHasSpeech ==
    \A t \in DOMAIN tasks : \E i \in Range(tasks[t].audio) : ~handled[i].silent

\* C22: once the SIGINT handler has run, no capture session is active, no
\* audio-output process is running, the utterance buffer is empty, and the
\* chunks delivered by the stopped sessions have started no commit.
PlaybackRunning ==
    \E p \in DOMAIN players : \E k \in DOMAIN players[p].procs :
        players[p].procs[k].state = "running"

C22_TeardownQuiescent ==
    sigint.phase = "exited" =>
        /\ ~recorder.isRecording
        /\ recorder.activeSessions = {}
        /\ \A s \in DOMAIN recorder.sessions :
              ~recorder.sessions[s].isActive /\ ~recorder.sessions[s].recording
        /\ ~PlaybackRunning
        /\ accumulatedAudioBuffer = <<>>
        /\ Len(tasks) = sigint.tasksBefore

\* C23: the step in which a connect() resolves leaves isConnected true; a
\* disconnect() leaves it false, and from then on it turns true only when a
\* socket created by a later connect() opens; a connect() called while
\* isConnected is true throws and creates no socket.
RealtimeCallStep(op) ==
    /\ Len(realtime'.calls) = Len(realtime.calls) + 1
    /\ realtime'.calls[Len(realtime'.calls)].op = op

\* the place of the last disconnect() in the log of the calls, 0 when none
LastDisconnect ==
    LET D == {i \in DOMAIN realtime.calls : realtime.calls[i].op = "disconnect"}
    IN  IF D = {} THEN 0 ELSE CHOOSE i \in D : \A j \in D : j <= i

Opens(s) == realtime.sockets[s].state = "connecting" /\ realtime'.sockets[s].state = "open"

C23_ConnectionState ==
    [][ /\ \A s \in DOMAIN realtime.sockets :
              (realtime.sockets[s].promise = "pending"
                  /\ realtime'.sockets[s].promise = "resolved") => realtime'.isConnected
        /\ RealtimeCallStep("disconnect") => ~realtime'.isConnected
        /\ (~realtime.isConnected /\ realtime'.isConnected) =>
              \E s \in DOMAIN realtime.sockets :
                  Opens(s) /\ realtime.sockets[s].call > LastDisconnect
        /\ (RealtimeCallStep("connect") /\ realtime.isConnected) =>
              /\ realtime'.calls[Len(realtime'.calls)].threw
              /\ realtime'.sockets = realtime.sockets
              /\ realtime'.ws = realtime.ws
      ]_vars

\* C31: whenever an audio-output process started for a reply is running, the
\* engine is Speaking (isPlaying) and currentAudioPlayer is the player that
\* owns the process.
C31_PlaybackMatchesEngineState ==
    \A p \in DOMAIN players : \A k \in DOMAIN players[p].procs :
        players[p].procs[k].state = "running" =>
            isPlaying /\ currentAudioPlayer = p

\* C32: the roles of the conversation history alternate, starting with
\* "user"; a "user" entry without its "assistant" entry can only be the last
\* one, while the commit that pushed it is waiting for agent.generate; after
\* close() the history is empty.
C32_HistoryAlternates ==
    /\ \A i \in DOMAIN conversationHistory :
          conversationHistory[i] = IF i % 2 = 1 THEN "user" ELSE "assistant"
    /\ Len(conversationHistory) % 2 = 1 =>
          \E t \in DOMAIN tasks : tasks[t].pc = "generate"
    /\ sigint.phase = "exited" => conversationHistory = <<>>

\* C33: whenever isConnected is true, ws is a socket that is open; a call of
\* sendAudio, commitAudio or updateSession sends its message on that socket,
\* and when the client is not connected it throws and no socket sends.
SendStep == \E op \in SendOps : RealtimeCallStep(op)

C33_SendsOnlyOnOpenSocket ==
    [][ /\ realtime'.isConnected =>
              /\ realtime'.ws # NoSocket
              /\ realtime'.sockets[realtime'.ws].state = "open"
        /\ SendStep =>
              IF realtime.isConnected /\ realtime.ws # NoSocket
              THEN /\ realtime.sockets[realtime.ws].state = "open"
                   /\ ~realtime'.calls[Len(realtime'.calls)].threw
                   /\ realtime'.sockets[realtime.ws].sent
                          = realtime.sockets[realtime.ws].sent + 1
              ELSE /\ realtime'.calls[Len(realtime'.calls)].threw
                   /\ realtime'.sockets = realtime.sockets
      ]_vars

====
